---- MODULE Spec2Model ----
(***************************************************************************)
(* Model of epstein/client.py: DOJMultimediaSearchClient.search,           *)
(* search_all and save_results, and of main in epstein/cli.py.  Python     *)
(* strings are sequences of one-character strings, dicts are records       *)
(* (functions on their keys).                                              *)
(***************************************************************************)
EXTENDS Integers, Sequences, FiniteSets, TLC

\* the page length search assumes (client.py:69)
PAGE_SIZE == 10

\* bound: the number of page requests of one search_all run that is explored
MaxPages == 3

(***************************************************************************)
(* Strings                                                                 *)
(***************************************************************************)
SPACE == " "
QUOTE == "\""
BSLASH == "\\"
EMPTY == << >>    \* the empty string ""

\* str.replace(" ", "%20")
RECURSIVE ReplaceSpaces(_)
ReplaceSpaces(s) ==
    IF s = << >> THEN << >>
    ELSE (IF Head(s) = SPACE THEN <<"%", "2", "0">> ELSE <<Head(s)>>)
         \o ReplaceSpaces(Tail(s))

HasSpace(s) == \E i \in 1..Len(s) : s[i] = SPACE

\* url.split("/")[-1]
RECURSIVE LastSegment(_)
LastSegment(s) ==
    IF s = << >> THEN << >>
    ELSE IF s[Len(s)] = "/" THEN << >>
    ELSE LastSegment(SubSeq(s, 1, Len(s) - 1)) \o <<s[Len(s)]>>

\* dict.get(key, default)
Get(d, key, default) == IF key \in DOMAIN d THEN d[key] ELSE default

(***************************************************************************)
(* The server: what one GET of a page can produce                          *)
(***************************************************************************)
\* _source field bags of structured hits
Source1 ==
    [ORIGIN_FILE_NAME |-> <<"a", SPACE, "b">>,
     ORIGIN_FILE_URI |-> <<"/", "d", SPACE, "1", "/", "a", SPACE, "b">>,
     documentId |-> <<"d", "9">>, fileSize |-> 120, totalWords |-> 7,
     startPage |-> 1, endPage |-> 2, isChunked |-> FALSE,
     indexedAt |-> <<"2", "0", "2", "6">>]
Source2 ==
    [ORIGIN_FILE_NAME |-> <<"c", QUOTE, BSLASH, "e">>,
     ORIGIN_FILE_URI |-> <<"/", "d", "/", "c">>,
     documentId |-> <<"d", "2">>, fileSize |-> 0, totalWords |-> 35,
     startPage |-> 0, endPage |-> 10, isChunked |-> TRUE,
     indexedAt |-> EMPTY]
Source3 == [ORIGIN_FILE_URI |-> <<SPACE, "x", SPACE>>]
\* hits; the last one has no _source
HitPool ==
    <<[source |-> Source1], [source |-> Source2], [source |-> Source3],
      [score |-> 1]>>

\* the hit list of a structured response with n hits
Hits(n) == [i \in 1..n |-> HitPool[((i - 1) % Len(HitPool)) + 1]]

HitCounts == {0, 2, PAGE_SIZE, PAGE_SIZE + 1}
Totals == {PAGE_SIZE, 25}

\* markup bodies: the elements a class-name lambda can select
NoHref == <<"<", "n", "o", "n", "e", ">">>
NoText == <<"<", "n", "o", "t", "e", "x", "t", ">">>
ElemResultSpace ==
    [tag |-> "div", class |-> "search-result",
     href |-> <<"/", "f", "/", "a", SPACE, "b">>,
     heading |-> <<"T", QUOTE>>, text |-> <<"l">>]
ElemResultArticle ==
    [tag |-> "article", class |-> "Result",
     href |-> <<"/", "f", "/", "c">>, heading |-> NoText, text |-> <<"c">>]
ElemResultNoLink ==
    [tag |-> "div", class |-> "result-item",
     href |-> NoHref, heading |-> <<"H">>, text |-> NoText]
ElemItem ==
    [tag |-> "div", class |-> "list-item",
     href |-> <<"g">>, heading |-> NoText, text |-> <<"g">>]
ElemItemArticle ==
    [tag |-> "article", class |-> "item",
     href |-> <<"h", SPACE>>, heading |-> NoText, text |-> <<"h">>]

Doms ==
    {<< >>,
     <<ElemResultSpace, ElemResultNoLink, ElemResultArticle>>,
     <<ElemItem, ElemItemArticle>>,
     <<ElemResultNoLink, ElemItem>>}

\* the pagination markup: an <a rel="next">, and the <nav class="pag..."> block
Paginations ==
    {[rel_next |-> TRUE, nav |-> "none"],
     [rel_next |-> FALSE, nav |-> "next"],
     [rel_next |-> FALSE, nav |-> "previous"],
     [rel_next |-> FALSE, nav |-> "none"]}

\* session.get raised: no response was received
NoResponseFailures == {"timeout", "connection_error"}

\* the status codes of the responses that come without a 200
OtherStatuses == {300, 404, 500}

\* the bodies that also come with the other status codes
OtherBodies ==
    {[kind |-> "json", hits |-> Hits(2), total |-> PAGE_SIZE],
     [kind |-> "html",
      dom |-> <<ElemResultSpace, ElemResultNoLink, ElemResultArticle>>,
      pagination |-> [rel_next |-> TRUE, nav |-> "none"]]}

\* a body, as a response with a status code
WithStatus(body, status) ==
    [k \in DOMAIN body \cup {"status"} |-> IF k = "status" THEN status ELSE body[k]]

Bodies ==
    {[kind |-> "json_other"]}
    \cup {[kind |-> "json", hits |-> Hits(n), total |-> t] :
             n \in HitCounts, t \in Totals}
    \cup {[kind |-> "html", dom |-> d, pagination |-> p] :
             d \in Doms, p \in Paginations}

Responses ==
    {[kind |-> k] : k \in NoResponseFailures}
    \cup {WithStatus(b, 200) : b \in Bodies}
    \cup {WithStatus(b, st) : b \in OtherBodies, st \in OtherStatuses}

(***************************************************************************)
(* search (client.py:26-161)                                               *)
(***************************************************************************)
UNTITLED == <<"U", "n", "t", "i", "t", "l", "e", "d">>

\* raw_url.replace(" ", "%20"); EncodeUrlRaw is the fault of leaving it out
EncodeUrlRaw(raw_url) == raw_url
EncodeUrl(raw_url) == ReplaceSpaces(raw_url)

\* the record appended for one hit
HitDocument(hit, page) ==
    LET source == Get(hit, "source", << >>)
        raw_url == Get(source, "ORIGIN_FILE_URI", EMPTY)
        encoded_url == EncodeUrl(raw_url)
    IN  [title |-> Get(source, "ORIGIN_FILE_NAME", UNTITLED),
         file_name |-> Get(source, "ORIGIN_FILE_NAME", EMPTY),
         url |-> encoded_url,
         document_id |-> Get(source, "documentId", EMPTY),
         file_size |-> Get(source, "fileSize", 0),
         total_words |-> Get(source, "totalWords", 0),
         start_page |-> Get(source, "startPage", 0),
         end_page |-> Get(source, "endPage", 0),
         is_chunked |-> Get(source, "isChunked", FALSE),
         indexed_at |-> Get(source, "indexedAt", EMPTY),
         page |-> page]

\* has_next of the structured path; StructuredHasNextFromTotal is the fault
\* of deriving it from the reported total
StructuredHasNextFromTotal(documents, total_count) ==
    Len(documents) > 0 /\ Len(documents) < total_count
StructuredHasNext(documents, total_count) ==
    Len(documents) > 0 /\ Len(documents) = PAGE_SIZE

\* the try block of the structured path
ParseStructured(response, page) ==
    LET hits == response.hits
        total_count == response.total
        documents == [i \in 1..Len(hits) |-> HitDocument(hits[i], page)]
    IN  [documents |-> documents,
         has_next |-> StructuredHasNext(documents, total_count),
         error |-> FALSE, raised |-> FALSE]

\* the class_ lambdas: "result" in str(x).lower(), "item" in str(x).lower()
ClassHasResult(class) == class \in {"search-result", "Result", "result-item"}
ClassHasItem(class) == class \in {"list-item", "item", "result-item"}

FindResults(dom) ==
    LET results ==
            SelectSeq(dom, LAMBDA e : e.tag \in {"article", "div"}
                                      /\ ClassHasResult(e.class))
    IN  IF results = << >>
        THEN SelectSeq(dom, LAMBDA e : e.tag = "div" /\ ClassHasItem(e.class))
        ELSE results

\* the record appended for one result container that has a link
MarkupDocument(result, page) ==
    LET url == result.href
        file_name == IF url # EMPTY THEN LastSegment(url) ELSE EMPTY
        title == IF result.heading # NoText THEN result.heading ELSE result.text
    IN  [title |-> title, file_name |-> file_name, url |-> url, page |-> page]

MarkupHasNext(pagination) ==
    IF pagination.rel_next THEN TRUE ELSE pagination.nav = "next"

\* the handler of (json.JSONDecodeError, ValueError); ParseMarkupAsError is
\* the fault of letting the decode error reach the outer handler
ParseMarkupAsError(response, page) ==
    [documents |-> << >>, has_next |-> FALSE, error |-> TRUE, raised |-> FALSE]
ParseMarkup(response, page) ==
    LET results == FindResults(response.dom)
        linked == SelectSeq(results, LAMBDA r : r.href # NoHref)
        documents == [i \in 1..Len(linked) |-> MarkupDocument(linked[i], page)]
    IN  [documents |-> documents,
         has_next |-> MarkupHasNext(response.pagination),
         error |-> FALSE, raised |-> FALSE]

\* except requests.exceptions.RequestException: return [], False;
\* RequestFailedReraise is the fault of letting the exception out
RequestFailedReraise ==
    [documents |-> << >>, has_next |-> FALSE, error |-> TRUE, raised |-> TRUE]
RequestFailed ==
    [documents |-> << >>, has_next |-> FALSE, error |-> TRUE, raised |-> FALSE]

\* except Exception: return [], False
UnexpectedFailed ==
    [documents |-> << >>, has_next |-> FALSE, error |-> TRUE, raised |-> FALSE]

\* response.raise_for_status(): HTTPError for a 4xx or 5xx status
RaisesForStatus(status) == 400 <= status /\ status < 600

\* what search(query, page) returns for the response the server gives: a
\* decoded body that is no mapping makes data.get raise AttributeError
Search(response, page) ==
    CASE response.kind \in NoResponseFailures -> RequestFailed
      [] RaisesForStatus(response.status) -> RequestFailed
      [] response.kind = "json_other" -> UnexpectedFailed
      [] response.kind = "json" -> ParseStructured(response, page)
      [] response.kind = "html" -> ParseMarkup(response, page)

(***************************************************************************)
(* save_results (client.py:198-227)                                        *)
(***************************************************************************)
\* the insertion order of a record's keys
FIELD_ORDER ==
    <<"title", "file_name", "url", "document_id", "file_size", "total_words",
      "start_page", "end_page", "is_chunked", "indexed_at", "page">>
INT_FIELDS == {"file_size", "total_words", "start_page", "end_page", "page"}
BOOL_FIELDS == {"is_chunked"}

Keys(doc) == SelectSeq(FIELD_ORDER, LAMBDA k : k \in DOMAIN doc)

DIGITS == <<"0", "1", "2", "3", "4", "5", "6", "7", "8", "9">>

\* str(n) of a non-negative int
RECURSIVE IntToStr(_)
IntToStr(n) ==
    IF n < 10 THEN <<DIGITS[n + 1]>>
    ELSE IntToStr(n \div 10) \o <<DIGITS[(n % 10) + 1]>>

DigitValue(c) == CHOOSE d \in 0..9 : DIGITS[d + 1] = c

\* int(text)
RECURSIVE StrToInt(_)
StrToInt(s) ==
    IF Len(s) = 1 THEN DigitValue(s[1])
    ELSE 10 * StrToInt(SubSeq(s, 1, Len(s) - 1)) + DigitValue(s[Len(s)])

\* the body of a JSON string: quote and backslash get a backslash
RECURSIVE JsonEscape(_)
JsonEscape(s) ==
    IF s = << >> THEN << >>
    ELSE (IF Head(s) \in {QUOTE, BSLASH} THEN <<BSLASH, Head(s)>> ELSE <<Head(s)>>)
         \o JsonEscape(Tail(s))

RECURSIVE JsonUnescape(_)
JsonUnescape(s) ==
    IF s = << >> THEN << >>
    ELSE IF Head(s) = BSLASH THEN <<s[2]>> \o JsonUnescape(SubSeq(s, 3, Len(s)))
    ELSE <<Head(s)>> \o JsonUnescape(Tail(s))

\* json.dump of one value of a record
JsonEncode(key, v) ==
    IF key \in BOOL_FIELDS
    THEN [t |-> "literal", text |-> IF v THEN <<"t", "r", "u", "e">>
                                         ELSE <<"f", "a", "l", "s", "e">>]
    ELSE IF key \in INT_FIELDS THEN [t |-> "number", text |-> IntToStr(v)]
    ELSE [t |-> "string", text |-> JsonEscape(v)]

\* json.load of one value
JsonDecode(token) ==
    CASE token.t = "literal" -> token.text = <<"t", "r", "u", "e">>
      [] token.t = "number" -> StrToInt(token.text)
      [] token.t = "string" -> JsonUnescape(token.text)

\* json.dump(documents, f, indent=2, ensure_ascii=False): an array of objects,
\* each the members of one record in key order; JsonDumpNoEscape is the fault
\* of writing strings unescaped
JsonDumpNoEscape(documents) ==
    [i \in 1..Len(documents) |->
        LET doc == documents[i]
            keys == Keys(doc)
        IN  [j \in 1..Len(keys) |->
                [key |-> keys[j],
                 value |-> IF keys[j] \in BOOL_FIELDS \cup INT_FIELDS
                           THEN JsonEncode(keys[j], doc[keys[j]])
                           ELSE [t |-> "string", text |-> doc[keys[j]]]]]]
JsonDump(documents) ==
    [i \in 1..Len(documents) |->
        LET doc == documents[i]
            keys == Keys(doc)
        IN  [j \in 1..Len(keys) |->
                [key |-> keys[j], value |-> JsonEncode(keys[j], doc[keys[j]])]]]

\* json.load(f) of a file json.dump wrote
JsonLoad(array) ==
    [i \in 1..Len(array) |->
        LET object == array[i]
            Member(k) == CHOOSE j \in 1..Len(object) : object[j].key = k
        IN  [k \in {object[j].key : j \in 1..Len(object)} |->
                JsonDecode(object[Member(k)].value)]]

\* the cell csv writes for a value: str(value)
CsvCell(key, v) ==
    IF key \in BOOL_FIELDS
    THEN (IF v THEN <<"T", "r", "u", "e">> ELSE <<"F", "a", "l", "s", "e">>)
    ELSE IF key \in INT_FIELDS THEN IntToStr(v)
    ELSE v

\* DictWriter._dict_to_list: extrasaction="raise" rejects a row with keys
\* outside fieldnames; restval="" fills the keys a row lacks;
\* CsvRowRejectedIfDifferent is the fault of rejecting those rows too
CsvRowRejectedIfDifferent(doc, fieldnames) ==
    DOMAIN doc # {fieldnames[j] : j \in 1..Len(fieldnames)}
CsvRowRejected(doc, fieldnames) ==
    ~(DOMAIN doc \subseteq {fieldnames[j] : j \in 1..Len(fieldnames)})

CsvRow(doc, fieldnames) ==
    [j \in 1..Len(fieldnames) |->
        IF fieldnames[j] \in DOMAIN doc
        THEN CsvCell(fieldnames[j], doc[fieldnames[j]])
        ELSE EMPTY]

\* the CSV block: the rows that reach the file, and whether it raised;
\* CsvWriteUnguarded is the fault of reading documents[0] of an empty list
CsvWriteUnguarded(documents) ==
    IF documents = << >> THEN [rows |-> << >>, raised |-> TRUE]
    ELSE LET fieldnames == Keys(documents[1])
         IN  [rows |-> <<fieldnames>>
                         \o [i \in 1..Len(documents) |-> CsvRow(documents[i], fieldnames)],
              raised |-> \E i \in 1..Len(documents) :
                            CsvRowRejected(documents[i], fieldnames)]
CsvWrite(documents) ==
    IF documents = << >> THEN [rows |-> << >>, raised |-> FALSE]
    ELSE LET fieldnames == Keys(documents[1])
             bad == {i \in 1..Len(documents) : CsvRowRejected(documents[i], fieldnames)}
             written == IF bad = {} THEN Len(documents)
                        ELSE (CHOOSE i \in bad : \A k \in bad : i <= k) - 1
         IN  [rows |-> <<fieldnames>>
                         \o [i \in 1..written |-> CsvRow(documents[i], fieldnames)],
              raised |-> bad # {}]

\* the URL list block: one line per record
UrlLines(documents) == [i \in 1..Len(documents) |-> documents[i].url]

NEWLINE == "\n"

\* the text of the URL file: f.write(f"{doc['url']}\n") per record;
\* UrlFileTextUnterminated is the fault of leaving the line end out
RECURSIVE UrlFileTextUnterminated(_)
UrlFileTextUnterminated(documents) ==
    IF documents = << >> THEN << >>
    ELSE Head(documents).url \o UrlFileTextUnterminated(Tail(documents))
RECURSIVE UrlFileTextOf(_)
UrlFileTextOf(lines) ==
    IF lines = << >> THEN << >>
    ELSE Head(lines) \o <<NEWLINE>> \o UrlFileTextOf(Tail(lines))
UrlFileText(documents) == UrlFileTextOf(UrlLines(documents))

\* os.path.join(output_path, f"{prefix}_{timestamp}{suffix}")
PathJoin(output_path, prefix, timestamp, suffix) ==
    [dir |-> output_path, name |-> <<prefix, "_", timestamp, suffix>>]

Prefixes == {"epstein_library", "test"}
OutputPaths == {"lib_data", "custom_reports"}
Timestamps == {"20260101_120000"}
NoPaths == << >>

(***************************************************************************)
(* State                                                                   *)
(***************************************************************************)
VARIABLES
    pc,             \* where the caller of the client is
    max_results,    \* search_all's cap; 0 stands for None (both are falsy)
    all_documents,  \* search_all's accumulated list
    page,           \* search_all's page index
    has_next,       \* search_all's loop flag
    response,       \* the response of the last GET
    result,         \* what the last search call returned
    log,            \* the GETs and sleeps so far, in order
    fetched,        \* what each search call of search_all returned, in order
    dirs,           \* the directories that exist
    files,          \* the files that exist: path -> content
    saved,          \* what save_results returned
    save_call,      \* the arguments of the save_results call
    save_count,     \* the number of save_results calls so far
    args            \* main's parsed arguments, once main has parsed them

vars == <<pc, max_results, all_documents, page, has_next, response, result,
          log, fetched, dirs, files, saved, save_call, save_count, args>>

\* max_results values: None/0, a negative cap, caps around the page size
Caps == {0, -1, 1, 2, PAGE_SIZE, PAGE_SIZE + 1, 2 * PAGE_SIZE}

NoResponse == [kind |-> "none"]
NoResult == [documents |-> << >>, has_next |-> FALSE, error |-> FALSE, raised |-> FALSE]
NoCall ==
    [called |-> FALSE, documents |-> << >>, prefix |-> "", output_path |-> "",
     timestamp |-> ""]

\* args before main parsed any (and in runs that use the client directly)
NoArgs ==
    [given |-> FALSE, limit |-> 0, no_save |-> FALSE, prefix |-> "",
     output_path |-> ""]

Init ==
    /\ pc = "idle"
    /\ max_results = 0
    /\ all_documents = << >>
    /\ page = 0
    /\ has_next = TRUE
    /\ response = NoResponse
    /\ result = NoResult
    /\ log = << >>
    /\ fetched = << >>
    /\ dirs = {}
    /\ files = << >>
    /\ saved = NoPaths
    /\ save_call = NoCall
    /\ save_count = 0
    /\ args = NoArgs

(***************************************************************************)
(* search_all (client.py:163-196)                                          *)
(***************************************************************************)
\* if max_results and len(all_documents) >= max_results; CapReachedAfter is
\* the fault of testing with >
CapReachedAfter(cap, documents) == cap # 0 /\ Len(documents) > cap
CapReached(cap, documents) == cap # 0 /\ Len(documents) >= cap

\* page += 1; NextPageSame is the fault of asking for the same page again
NextPageSame(p) == p
NextPage(p) == p + 1

\* all_documents.extend(documents); ExtendReplace is the fault of assigning
ExtendReplace(accumulated, documents) == documents
Extend(accumulated, documents) == accumulated \o documents

\* if not documents: break; PageIsEmptyNever is the fault of leaving it out
PageIsEmptyNever(documents) == FALSE
PageIsEmpty(documents) == documents = << >>

Get_(p) == [ev |-> "get", page |-> p]
Sleep_(p) == [ev |-> "sleep", page |-> p]

\* the call: the locals before the first test of the while condition
SearchAllEntry(k) ==
    /\ pc' = "loop"
    /\ max_results' = k
    /\ all_documents' = << >>
    /\ page' = 0
    /\ has_next' = TRUE
    /\ UNCHANGED <<response, result, log, fetched, dirs, files, saved, save_call,
                   save_count>>

\* a direct call of search_all by the client's user
SearchAllStart(k) ==
    /\ pc = "idle"
    /\ SearchAllEntry(k)
    /\ UNCHANGED args

\* an iteration that finds the cap reached: break, return all_documents
CapBreak ==
    /\ pc = "loop"
    /\ has_next
    /\ CapReached(max_results, all_documents)
    /\ pc' = "returned"
    /\ UNCHANGED <<max_results, all_documents, page, has_next, response, result,
                   log, fetched, dirs, files, saved, save_call, save_count, args>>

\* an iteration that fetches a page
FetchPage(resp) ==
    /\ pc = "loop"
    /\ has_next
    /\ ~CapReached(max_results, all_documents)
    /\ Len(fetched) < MaxPages
    /\ LET r == Search(resp, page)
       IN  /\ response' = resp
           /\ result' = r
           /\ fetched' = Append(fetched, r)
           /\ IF r.raised
              THEN /\ pc' = "raised"
                   /\ log' = Append(log, Get_(page))
                   /\ UNCHANGED <<all_documents, page, has_next>>
              ELSE /\ has_next' = r.has_next
                   /\ IF PageIsEmpty(r.documents)
                      THEN /\ pc' = "returned"
                           /\ log' = Append(log, Get_(page))
                           /\ UNCHANGED <<all_documents, page>>
                      ELSE /\ all_documents' = Extend(all_documents, r.documents)
                           /\ IF r.has_next
                              THEN /\ page' = NextPage(page)
                                   /\ log' = log \o <<Get_(page), Sleep_(NextPage(page))>>
                                   /\ pc' = "loop"
                              ELSE /\ page' = page
                                   /\ log' = Append(log, Get_(page))
                                   /\ pc' = "returned"
    /\ UNCHANGED <<max_results, dirs, files, saved, save_call, save_count, args>>

\* a direct call of search by the client's user
SearchOnce(resp, p) ==
    /\ pc = "idle"
    /\ LET r == Search(resp, p)
       IN  /\ response' = resp
           /\ result' = r
           /\ log' = Append(log, Get_(p))
           /\ pc' = IF r.raised THEN "raised" ELSE "searched"
    /\ UNCHANGED <<max_results, all_documents, page, has_next, fetched, dirs,
                   files, saved, save_call, save_count, args>>

\* the list the caller holds and passes to save_results
CallerDocuments == IF pc = "searched" THEN result.documents ELSE all_documents

\* the body of save_results(documents, prefix, output_path)
SaveResultsBody(documents, prefix, output_path, timestamp) ==
    LET json_file == PathJoin(output_path, prefix, timestamp, ".json")
        csv_file == PathJoin(output_path, prefix, timestamp, ".csv")
        urls_file == PathJoin(output_path, prefix, timestamp, "_urls.txt")
        csv == CsvWrite(documents)
    IN  /\ save_call' = [called |-> TRUE, documents |-> documents,
                          prefix |-> prefix, output_path |-> output_path,
                          timestamp |-> timestamp]
        /\ save_count' = save_count + 1
        /\ dirs' = dirs \cup {output_path}
        /\ IF csv.raised
           THEN /\ files' = (json_file :> JsonDump(documents))
                            @@ (csv_file :> csv.rows) @@ files
                /\ saved' = NoPaths
                /\ pc' = "save_raised"
           ELSE /\ files' = (json_file :> JsonDump(documents))
                            @@ (csv_file :> csv.rows)
                            @@ (urls_file :> UrlFileText(documents)) @@ files
                /\ saved' = <<json_file, csv_file, urls_file>>
                /\ pc' = "saved"

\* a direct call of save_results by the client's user
SaveResults(prefix, output_path, timestamp) ==
    /\ pc \in {"idle", "searched", "returned"}
    /\ ~args.given
    /\ SaveResultsBody(CallerDocuments, prefix, output_path, timestamp)
    /\ UNCHANGED <<max_results, all_documents, page, has_next, response, result,
                   log, fetched, args>>

(***************************************************************************)
(* main (cli.py:31-128)                                                    *)
(***************************************************************************)
\* len(sys.argv) == 1: show_banner() and return
MainBanner ==
    /\ pc = "idle"
    /\ pc' = "banner"
    /\ UNCHANGED <<max_results, all_documents, page, has_next, response, result,
                   log, fetched, dirs, files, saved, save_call, save_count, args>>

\* parser.parse_args() exits: --help, or an argument it rejects
MainParseExit ==
    /\ pc = "idle"
    /\ pc' = "exited"
    /\ UNCHANGED <<max_results, all_documents, page, has_next, response, result,
                   log, fetched, dirs, files, saved, save_call, save_count, args>>

\* parse_args succeeds; main builds the client and calls search_all
MainStart(limit, no_save, prefix, output_path) ==
    /\ pc = "idle"
    /\ args' = [given |-> TRUE, limit |-> limit, no_save |-> no_save,
                prefix |-> prefix, output_path |-> output_path]
    /\ SearchAllEntry(limit)

\* if not args.no_save; ShouldSaveAlways is the fault of ignoring the flag
ShouldSaveAlways(a) == TRUE
ShouldSave(a) == ~a.no_save

\* search_all returned to main: the summary, the save, the listing
MainAfterSearch(timestamp) ==
    /\ pc = "returned"
    /\ args.given
    /\ LET documents == all_documents
       IN  IF documents = << >>
           THEN /\ pc' = "main_done"
                /\ UNCHANGED <<dirs, files, saved, save_call, save_count>>
           ELSE IF ShouldSave(args)
           THEN SaveResultsBody(documents, args.prefix, args.output_path, timestamp)
           ELSE /\ pc' = "main_done"
                /\ UNCHANGED <<dirs, files, saved, save_call, save_count>>
    /\ UNCHANGED <<max_results, all_documents, page, has_next, response, result,
                   log, fetched, args>>

Next ==
    \/ \E k \in Caps : SearchAllStart(k)
    \/ CapBreak
    \/ \E resp \in Responses : FetchPage(resp)
    \/ \E resp \in Responses, p \in 0..1 : SearchOnce(resp, p)
    \/ \E prefix \in Prefixes, output_path \in OutputPaths, timestamp \in Timestamps :
          SaveResults(prefix, output_path, timestamp)
    \/ MainBanner
    \/ MainParseExit
    \/ \E limit \in Caps, no_save \in BOOLEAN, prefix \in Prefixes,
          output_path \in OutputPaths :
          MainStart(limit, no_save, prefix, output_path)
    \/ \E timestamp \in Timestamps : MainAfterSearch(timestamp)

Spec == Init /\ [][Next]_vars

\* search_all is sequential code: an iteration that can run does run (every
\* GET returns or times out after 30 seconds)
LiveSpec ==
    /\ Spec
    /\ WF_vars(CapBreak)
    /\ WF_vars(\E resp \in Responses : FetchPage(resp))

TypeOK ==
    /\ pc \in {"idle", "loop", "returned", "searched", "raised", "saved",
              "save_raised", "banner", "exited", "main_done"}
    /\ save_count \in 0..1
    /\ args.given \in BOOLEAN
    /\ max_results \in Caps
    /\ page \in 0..MaxPages
    /\ has_next \in BOOLEAN

(***************************************************************************)
(* Properties                                                              *)
(***************************************************************************)
InSearchAll == pc \in {"loop", "returned"}
Requests == SelectSeq(log, LAMBDA e : e.ev = "get")

RECURSIVE Concat(_)
Concat(results) ==
    IF results = << >> THEN << >>
    ELSE Concat(SubSeq(results, 1, Len(results) - 1))
         \o results[Len(results)].documents

\* the number of records of the first n fetched pages
CountUpTo(n) == Len(Concat(SubSeq(fetched, 1, n)))

\* the last fetched page ended the pagination: empty, failed, or has_next false
PagesRanOut ==
    /\ fetched # << >>
    /\ \/ fetched[Len(fetched)].documents = << >>
       \/ ~fetched[Len(fetched)].has_next

\* the smallest multiple of PAGE_SIZE that is >= k
CeilToPage(k) == ((k + PAGE_SIZE - 1) \div PAGE_SIZE) * PAGE_SIZE

CountIsCeilOrFewer ==
    \/ Len(all_documents) = CeilToPage(max_results)
    \/ Len(all_documents) < CeilToPage(max_results) /\ PagesRanOut

\* every fetched page that reports more pages holds exactly PAGE_SIZE records
\* and every other page fewer (what structured responses of at most PAGE_SIZE
\* hits give)
PagesAreFullOrLast ==
    \A i \in 1..Len(fetched) :
        IF fetched[i].has_next THEN Len(fetched[i].documents) = PAGE_SIZE
        ELSE Len(fetched[i].documents) < PAGE_SIZE

\* C1 as stated: with a positive cap k, search_all returns the smallest
\* multiple of the page size >= k, or fewer records if the pages ran out.
C1_CountIsPageMultiple ==
    (pc = "returned" /\ max_results > 0) => CountIsCeilOrFewer

\* C1 amended: with a positive cap k, search_all returns whole pages only (the
\* concatenation of the fetched pages, none truncated); the cap was not yet
\* reached before the last fetch; the run ended because the cap was reached or
\* the pages ran out; and when every page with has_next holds exactly PAGE_SIZE
\* records and every other page fewer, the count is the smallest multiple of
\* PAGE_SIZE >= k, or fewer if the pages ran out first.
C1_CapTestedBeforeFetch ==
    (pc = "returned" /\ max_results > 0) =>
        /\ all_documents = Concat(fetched)
        /\ fetched # << >> => CountUpTo(Len(fetched) - 1) < max_results
        /\ Len(all_documents) >= max_results \/ PagesRanOut
        /\ PagesAreFullOrLast => CountIsCeilOrFewer

C1_Witness ==
    /\ pc = "returned"
    /\ max_results = PAGE_SIZE + 1
    /\ Len(fetched) = 2
    /\ Len(all_documents) = 2 * PAGE_SIZE

\* a response was received and raise_for_status let it pass
Received(resp) ==
    resp.kind \in {"json", "json_other", "html"} /\ ~(400 <= resp.status /\ resp.status < 600)

\* C2: for a structured response with N hits, search returns has_next = TRUE
\* iff N = 10, whatever total the response reports.
C2_HasNextIffFullPage ==
    (response.kind = "json" /\ Received(response)) =>
        (result.has_next <=> Len(response.hits) = 10)

C2_Witness ==
    /\ response.kind = "json"
    /\ response.status = 200
    /\ Len(response.hits) = 10
    /\ response.total = 10
    /\ result.has_next

SpacesBefore(raw, i) == Cardinality({j \in 1..(i - 1) : raw[j] = SPACE})

\* url is raw with every space replaced by %20 and nothing else changed
IsSpaceEncoded(raw, url) ==
    /\ Len(url) = Len(raw) + 2 * SpacesBefore(raw, Len(raw) + 1)
    /\ \A i \in 1..Len(raw) :
          LET at == i + 2 * SpacesBefore(raw, i)
          IN  IF raw[i] = SPACE
              THEN url[at] = "%" /\ url[at + 1] = "2" /\ url[at + 2] = "0"
              ELSE url[at] = raw[i]

\* C3: for a structured response with N hits, search returns exactly N
\* records in hit order, each url being the hit's ORIGIN_FILE_URI with every
\* space replaced by %20 and nothing else changed, so without a space.
C3_StructuredRecords ==
    (response.kind = "json" /\ Received(response)) =>
        /\ Len(result.documents) = Len(response.hits)
        /\ \A i \in 1..Len(response.hits) :
              /\ IsSpaceEncoded(Get(Get(response.hits[i], "source", << >>),
                                    "ORIGIN_FILE_URI", EMPTY),
                                result.documents[i].url)
              /\ ~HasSpace(result.documents[i].url)

C3_Witness ==
    /\ response.kind = "json"
    /\ response.status = 200
    /\ Len(result.documents) = 2
    /\ HasSpace(response.hits[1].source.ORIGIN_FILE_URI)
    /\ result.documents[1].url =
          <<"/", "d", "%", "2", "0", "1", "/", "a", "%", "2", "0", "b">>

NothingReturned ==
    /\ result.documents = << >>
    /\ result.has_next = FALSE
    /\ ~result.raised
    /\ pc # "raised"

\* C4 as stated: for every transport failure of the page request (timeout,
\* connection error, non-2xx status), search returns ([], False) and raises
\* nothing to its caller.
C4_FailureIsEmpty ==
    (\/ response.kind \in NoResponseFailures
     \/ response.kind \in {"json", "json_other", "html"}
        /\ ~(200 <= response.status /\ response.status < 300))
    => NothingReturned

\* C4 amended: the same for a timeout, a connection error and a 4xx or 5xx
\* status; a response with another non-2xx status is parsed like a 2xx one.
C4_RequestFailureIsEmpty ==
    /\ (\/ response.kind \in NoResponseFailures
        \/ response.kind \in {"json", "json_other", "html"}
           /\ 400 <= response.status /\ response.status < 600)
       => NothingReturned
    /\ (response.kind = "json" /\ response.status = 300)
       => Len(result.documents) = Len(response.hits)

C4_Witness ==
    /\ response.kind = "html"
    /\ response.status = 404
    /\ pc = "searched"
    /\ result.documents = << >>
    /\ result.error

\* C5: search_all requests pages 0, 1, 2, ... in order, without gaps, each at
\* most once, and a request is issued only while none of these has happened:
\* the accumulated count reached max_results (when set), a page yielded no
\* record (a failure counts as none), a page returned has_next = FALSE.
C5_RequestsInOrderUntilStop ==
    InSearchAll =>
        /\ Len(Requests) = Len(fetched)
        /\ \A i \in 1..Len(Requests) :
              /\ Requests[i].page = i - 1
              /\ max_results # 0 => CountUpTo(i - 1) < max_results
              /\ \A j \in 1..(i - 1) :
                    fetched[j].documents # << >> /\ fetched[j].has_next
        /\ pc = "returned" =>
              \/ max_results # 0 /\ Len(all_documents) >= max_results
              \/ PagesRanOut

C5_Witness ==
    /\ pc = "returned"
    /\ Len(Requests) = 3
    /\ Requests[3].page = 2
    /\ fetched[3].documents = << >>
    /\ fetched[3].error

\* C6 as stated: every record search produces, by either path, and so every
\* record of search_all's list, has a url without a literal space.
C6_NoSpaceInUrl ==
    /\ \A i \in 1..Len(result.documents) : ~HasSpace(result.documents[i].url)
    /\ \A i \in 1..Len(all_documents) : ~HasSpace(all_documents[i].url)

\* the hrefs the markup scan is to pick: the linked containers whose class
\* has "result" (article or div), else the linked divs whose class has "item"
ExpectedHrefs(dom) ==
    LET Pick(e) == e.tag \in {"article", "div"} /\ ClassHasResult(e.class)
        Alt(e) == e.tag = "div" /\ ClassHasItem(e.class)
        chosen == IF \E i \in 1..Len(dom) : Pick(dom[i])
                  THEN SelectSeq(dom, Pick) ELSE SelectSeq(dom, Alt)
        linked == SelectSeq(chosen, LAMBDA e : e.href # NoHref)
    IN  [i \in 1..Len(linked) |-> linked[i].href]

\* C7: when the body of a received response does not decode as the
\* structured payload, search returns the records and has_next of the markup
\* scan of that body, and does not take the error outcome.
C7_DecodeFailureFallsBack ==
    (response.kind = "html" /\ Received(response)) =>
        /\ ~result.error
        /\ ~result.raised
        /\ [i \in 1..Len(result.documents) |-> result.documents[i].url]
              = ExpectedHrefs(response.dom)
        /\ result.has_next =
              (response.pagination.rel_next \/ response.pagination.nav = "next")

C7_Witness ==
    /\ response.kind = "html"
    /\ response.status = 200
    /\ Len(result.documents) = 2
    /\ result.has_next
    /\ ~response.pagination.rel_next

SaveDone == pc \in {"saved", "save_raised"}
JsonPath ==
    PathJoin(save_call.output_path, save_call.prefix, save_call.timestamp, ".json")

ThreeFilesExist ==
    /\ pc = "saved"
    /\ Len(saved) = 3
    /\ \A i \in 1..3 :
          /\ saved[i] \in DOMAIN files
          /\ saved[i].dir = save_call.output_path
    /\ save_call.output_path \in dirs
    /\ saved[1] # saved[2] /\ saved[2] # saved[3] /\ saved[1] # saved[3]

EmptyFilesForEmptyList ==
    save_call.documents = << >> =>
        /\ JsonLoad(files[saved[1]]) = << >>
        /\ files[saved[2]] = << >>
        /\ files[saved[3]] = << >>

\* a record with a field the first record lacks
HasExtraField(documents) ==
    \E i \in 1..Len(documents) : ~(DOMAIN documents[i] \subseteq DOMAIN documents[1])

\* a record whose field set differs from the first record's
HasDifferentFields(documents) ==
    \E i \in 1..Len(documents) : DOMAIN documents[i] # DOMAIN documents[1]

\* C8 as stated: for every record list save_results returns three paths that
\* exist as files directly under the output directory; for the empty list
\* the JSON file holds an empty list and the other two files are empty.
C8_ThreeFilesAlways ==
    SaveDone => ThreeFilesExist /\ EmptyFilesForEmptyList

\* C8 amended: the same for every record list in which no record has a field
\* that the first record lacks (the empty list included); for the other lists
\* save_results raises while it writes the CSV file and returns no path.
C8_ThreeFilesUnlessExtraField ==
    SaveDone =>
        IF HasExtraField(save_call.documents)
        THEN pc = "save_raised" /\ saved = NoPaths
        ELSE ThreeFilesExist /\ EmptyFilesForEmptyList

C8_Witness ==
    /\ pc = "saved"
    /\ save_call.documents = << >>
    /\ Len(saved) = 3
    /\ files[saved[1]] = << >>

\* C9: reloading the JSON file save_results wrote yields a list equal to the
\* input: same length, same order, each record equal field for field.
C9_JsonRoundTrip ==
    SaveDone =>
        /\ JsonPath \in DOMAIN files
        /\ LET loaded == JsonLoad(files[JsonPath])
               documents == save_call.documents
           IN  /\ Len(loaded) = Len(documents)
               /\ \A i \in 1..Len(documents) :
                     /\ DOMAIN loaded[i] = DOMAIN documents[i]
                     /\ \A k \in DOMAIN documents[i] : loaded[i][k] = documents[i][k]

C9_Witness ==
    /\ pc = "saved"
    /\ Len(save_call.documents) = PAGE_SIZE + 2
    /\ \E i \in 1..Len(save_call.documents) :
          \E j \in 1..Len(save_call.documents[i].title) :
              save_call.documents[i].title[j] = QUOTE
    /\ HasDifferentFields(save_call.documents)

\* C10 as stated: writing the CSV file fails for every list in which some
\* record's field set differs from the first record's, and succeeds when
\* every record has the first record's field set.
C10_CsvFailsIffFieldsDiffer ==
    SaveDone => (pc = "save_raised" <=> HasDifferentFields(save_call.documents))

\* C10 amended: writing the CSV file fails exactly for the lists in which
\* some record has a field that the first record lacks; a record that only
\* lacks fields of the first record is written, with empty cells for them.
C10_CsvFailsIffExtraField ==
    SaveDone =>
        /\ pc = "save_raised" <=> HasExtraField(save_call.documents)
        /\ pc = "saved" =>
              LET rows == files[saved[2]]
                  documents == save_call.documents
              IN  \A i \in 1..Len(documents) :
                     \A j \in 1..Len(rows[1]) :
                        rows[1][j] \notin DOMAIN documents[i] => rows[i + 1][j] = EMPTY

C10_Witness ==
    /\ pc = "saved"
    /\ HasDifferentFields(save_call.documents)
    /\ ~HasExtraField(save_call.documents)

\* f.read().strip().split("\n") of a text whose lines end with a line end
RECURSIVE SplitLines(_)
SplitLines(text) ==
    IF text = << >> THEN << >>
    ELSE LET ends == {i \in 1..Len(text) : text[i] = NEWLINE}
         IN  IF ends = {} THEN <<text>>
             ELSE LET first == CHOOSE i \in ends : \A k \in ends : i <= k
                  IN  <<SubSeq(text, 1, first - 1)>>
                      \o SplitLines(SubSeq(text, first + 1, Len(text)))

\* all records of the list have the field set of the first
SharesFieldSet(documents) == ~HasDifferentFields(documents)

\* the cells of a record under the header, by position
ExpectedCells(doc, header) ==
    [j \in 1..Len(header) |->
        IF header[j] \in BOOL_FIELDS
        THEN (IF doc[header[j]] THEN <<"T", "r", "u", "e">>
              ELSE <<"F", "a", "l", "s", "e">>)
        ELSE IF header[j] \in INT_FIELDS THEN IntToStr(doc[header[j]])
        ELSE doc[header[j]]]

\* C11: for a non-empty list of n records sharing one field set, save_results
\* writes a CSV file of one header row followed by n data rows and a URL file
\* of n lines; data row i and URL line i come from record i of the list.
C11_RowsAndLinesInOrder ==
    (SaveDone /\ save_call.documents # << >> /\ SharesFieldSet(save_call.documents)) =>
        /\ pc = "saved"
        /\ LET documents == save_call.documents
               rows == files[saved[2]]
               lines == SplitLines(files[saved[3]])
           IN  /\ Len(rows) = Len(documents) + 1
               /\ {rows[1][j] : j \in 1..Len(rows[1])} = DOMAIN documents[1]
               /\ Len(rows[1]) = Cardinality(DOMAIN documents[1])
               /\ Len(lines) = Len(documents)
               /\ \A i \in 1..Len(documents) :
                     /\ rows[i + 1] = ExpectedCells(documents[i], rows[1])
                     /\ lines[i] = documents[i].url

C11_Witness ==
    /\ pc = "saved"
    /\ SharesFieldSet(save_call.documents)
    /\ Len(save_call.documents) = PAGE_SIZE + 1
    /\ save_call.documents[1] = save_call.documents[5]
    /\ Len(files[saved[2]]) = PAGE_SIZE + 2
    /\ Len(SplitLines(files[saved[3]])) = PAGE_SIZE + 1

\* a run of main with arguments has ended
MainRunEnded == args.given /\ pc \in {"main_done", "saved", "save_raised"}

\* C12: a run of main with arguments calls save_results exactly once, with
\* the list search_all returned and the configured prefix and directory, iff
\* search_all returned a record and --no-save was not given; every other run
\* of main (--no-save, no record, no arguments) never calls it.
C12_MainSavesOnceIffAsked ==
    /\ MainRunEnded =>
          IF all_documents # << >> /\ ~args.no_save
          THEN /\ save_count = 1
               /\ save_call.called
               /\ save_call.documents = all_documents
               /\ save_call.prefix = args.prefix
               /\ save_call.output_path = args.output_path
          ELSE save_count = 0 /\ ~save_call.called /\ pc = "main_done"
    /\ (args.given /\ pc \in {"loop", "returned"}) => save_count = 0
    /\ pc \in {"banner", "exited"} => (save_count = 0 /\ log = << >>)

C12_Witness ==
    /\ MainRunEnded
    /\ pc = "saved"
    /\ save_count = 1
    /\ args.prefix = "test"
    /\ args.output_path = "custom_reports"
    /\ Len(save_call.documents) = PAGE_SIZE + 2

\* C13 as stated: in a finished search_all run every sleep lies between two
\* page requests: it follows a page that returned a record with has_next =
\* TRUE, the request for the next page follows it, and no sleep comes after
\* the last page request.
C13_SleepsBetweenRequests ==
    pc = "returned" =>
        \A i \in 1..Len(log) :
            log[i].ev = "sleep" =>
                /\ i > 1
                /\ log[i - 1].ev = "get"
                /\ LET n == Len(SelectSeq(SubSeq(log, 1, i), LAMBDA e : e.ev = "get"))
                   IN  fetched[n].documents # << >> /\ fetched[n].has_next
                /\ i < Len(log)
                /\ log[i + 1].ev = "get"
                /\ log[i + 1].page = log[i].page

\* C14: during search_all the accumulated list only grows by appending: after
\* each page it is its previous value followed by that page's records, so it
\* is the concatenation of the requested pages' records in page order, and
\* each record's page field is the index of the request that produced it.
C14_Accumulated ==
    InSearchAll =>
        /\ all_documents = Concat(fetched)
        /\ Len(Requests) = Len(fetched)
        /\ \A i \in 1..Len(fetched) :
              \A j \in 1..Len(fetched[i].documents) :
                  fetched[i].documents[j].page = Requests[i].page
C14_Step ==
    /\ Len(all_documents') >= Len(all_documents)
    /\ SubSeq(all_documents', 1, Len(all_documents)) = all_documents
    /\ Len(fetched') = Len(fetched) + 1 =>
          all_documents' = all_documents \o fetched'[Len(fetched')].documents
C14_AppendOnly == []C14_Accumulated /\ [][C14_Step]_vars

C14_Witness ==
    /\ pc = "returned"
    /\ Len(fetched) = 3
    /\ fetched[3].error
    /\ Len(all_documents) = PAGE_SIZE + 2
    /\ all_documents[1].page = 0
    /\ all_documents[PAGE_SIZE + 1].page = 1
    /\ DOMAIN all_documents[1] # DOMAIN all_documents[PAGE_SIZE + 1]

\* C15: with a positive cap k search_all makes at most k page requests,
\* whatever the server answers, and then returns: once k requests are made
\* the next iteration finds the cap reached; a running loop ends.
C15_AtMostCapRequests ==
    (InSearchAll /\ max_results > 0) =>
        /\ Len(Requests) <= max_results
        /\ (pc = "loop" /\ Len(Requests) = max_results) =>
              CapReached(max_results, all_documents)
C15_Terminates ==
    /\ []C15_AtMostCapRequests
    /\ (pc = "loop" /\ max_results \in 1..MaxPages) ~> (pc # "loop")

C15_Witness ==
    /\ pc = "returned"
    /\ max_results = 2
    /\ Len(Requests) = 2
    /\ Len(all_documents) = 2
    /\ fetched[2].has_next

====
